---- MODULE Spec2Model ----
(***************************************************************************)
(* A model of src/js/agent-client.js: the AgentClient class.               *)
(*                                                                         *)
(*   Spec           callAgent: the loading flag, the fetch, the reply      *)
(*   SpecFormat     formatResponse: the regular-expression pipeline        *)
(*   SpecClipboard  copyToClipboard: the primary write and the fallback    *)
(*                                                                         *)
(* Strings the code inspects character by character (prompts, the text     *)
(* given to formatResponse and its output) are sequences of one-character  *)
(* strings.  Strings the code only passes on (messages) are TLA+ strings.  *)
(***************************************************************************)
EXTENDS Integers, Sequences, FiniteSets, TLC

VARIABLES
    loading,      \* this.loading
    pc,           \* pc[c]: where invocation slot c of callAgent is suspended
    prompt,       \* pc[c] # "idle": the prompt argument of that invocation
    agent,        \* pc[c] # "idle": the agent argument of that invocation
    entryBusy,    \* pc[c] # "idle": was another invocation suspended when c started
    fetches,      \* pc[c] # "idle": number of fetch() calls c has made
    net,          \* the requests handed to fetch() that have not finished
    console,      \* the last message passed to console.error ("" if none)
    settled,      \* how the last accepted invocation ended ("none" at the start)
    last,         \* what the last step of callAgent did (see NoEvent)
    text,         \* formatResponse: the argument
    formatted,    \* formatResponse: the value returned
    fdone,        \* formatResponse: has it returned
    cpc,          \* copyToClipboard: where invocation k is
    ctext,        \* copyToClipboard: the text argument of invocation k
    body,         \* document.body: the set of textareas (by creator) appended to it
    clipboard,    \* the system clipboard's content ("" if nothing was written)
    selected      \* the text selected in the document ("" if none)

gateVars == <<loading, pc, prompt, agent, entryBusy, fetches, net, console, settled, last>>
formatVars == <<text, formatted, fdone>>
clipVars == <<cpc, ctext, body, clipboard, selected>>
vars == <<gateVars, formatVars, clipVars>>

----------------------------------------------------------------------------
(* Bounds *)

MaxCalls == 3          \* invocation slots of callAgent that may overlap
MaxPromptLen == 2      \* length of the prompts tried

----------------------------------------------------------------------------
(* Characters *)

\* The characters String.prototype.trim and the regex class \s remove.
WhiteSpace == {" ", "\n", "\t"}

RECURSIVE TrimStart(_)
TrimStart(s) ==
    IF s # <<>> /\ Head(s) \in WhiteSpace THEN TrimStart(Tail(s)) ELSE s

RECURSIVE TrimEnd(_)
TrimEnd(s) ==
    IF s # <<>> /\ s[Len(s)] \in WhiteSpace
    THEN TrimEnd(SubSeq(s, 1, Len(s) - 1))
    ELSE s

\* String.prototype.trim
Trim(s) == TrimEnd(TrimStart(s))

RECURSIVE StringsUpTo(_, _)
StringsUpTo(alphabet, n) ==
    IF n = 0 THEN {<<>>}
    ELSE LET shorter == StringsUpTo(alphabet, n - 1)
         IN  shorter \cup {Append(s, ch) : s \in shorter, ch \in alphabet}

----------------------------------------------------------------------------
(* callAgent *)

Calls == 1..MaxCalls

apiEndpoint == "/.netlify/functions/ai-agent"

\* A prompt is a string or absent (null, undefined): the latter is NoPrompt.
NoPrompt == <<"null">>
PromptChars == {" ", "a"}
Prompts == StringsUpTo(PromptChars, MaxPromptLen) \cup {NoPrompt}
Agents == {"codeReview", "quizTutor"}

\* A guard at line 23 that forgets to trim.
IsBlankUntrimmed(p) == p = NoPrompt \/ p = <<>>

\* !prompt || prompt.trim() === ''
IsBlank(p) == p = NoPrompt \/ p = <<>> \/ Trim(p) = <<>>

BusyError == "Already processing a request. Please wait."
EmptyPromptError == "Please enter a prompt or question."
ConnectError == "Unable to connect to AI service. Please check your connection and try again."
NoResponse == "No response received"

Result(r, e) == [response |-> r, error |-> e]

\* The replies of the service.  A field of the body is absent (<<>>) or a
\* string (<<s>>); the body itself may also be the JSON value null.
Statuses == {200, 204, 404, 500}
Fields == {<<>>, <<"">>, <<"Hello">>, <<"Rate limit exceeded">>}
Bodies == {[isNull |-> TRUE, error |-> <<>>, response |-> <<>>]}
          \cup {[isNull |-> FALSE, error |-> e, response |-> r] : e \in Fields, r \in Fields}
NetworkErrors == {"Failed to fetch"}
ParseErrors == {"Unexpected token < in JSON at position 0"}
NullError == "Cannot read properties of null (reading 'error')"
ServerError(status) == "Server error: " \o ToString(status)

\* response.ok
Ok(status) == status >= 200 /\ status <= 299

\* JavaScript truthiness of a body field
Truthy(f) == f # <<>> /\ f[1] # ""

\* What the last step of callAgent did.  kind is "none", "accepted" (the
\* invocation passed both guards and is suspended in fetch) or "returned".
NoEvent ==
    [kind |-> "none", call |-> 0, prompt |-> <<>>, busy |-> FALSE, after |-> "none",
     outcome |-> "none", result |-> Result("", ""), fetches |-> 0, flag |-> FALSE]

InFlight == {c \in Calls : pc[c] # "idle"}

\* The part of a slot's state that only lives while the invocation does.
Forget(c) ==
    /\ pc' = [pc EXCEPT ![c] = "idle"]
    /\ prompt' = [prompt EXCEPT ![c] = <<>>]
    /\ agent' = [agent EXCEPT ![c] = ""]
    /\ entryBusy' = [entryBusy EXCEPT ![c] = FALSE]
    /\ fetches' = [fetches EXCEPT ![c] = 0]

\* Lines 19-21: the invocation returns the busy error.
RejectBusy(c, p) ==
    /\ Forget(c)
    /\ last' = [NoEvent EXCEPT !.kind = "returned", !.call = c, !.prompt = p,
                               !.busy = (InFlight # {}), !.after = settled,
                               !.outcome = "busy", !.result = Result("", BusyError),
                               !.flag = loading]
    /\ UNCHANGED <<loading, net, console, settled>>

\* Lines 23-25: the invocation returns the empty-prompt error.
RejectBlank(c, p) ==
    /\ Forget(c)
    /\ last' = [NoEvent EXCEPT !.kind = "returned", !.call = c, !.prompt = p,
                               !.busy = (InFlight # {}), !.after = settled,
                               !.outcome = "blank", !.result = Result("", EmptyPromptError),
                               !.flag = loading]
    /\ UNCHANGED <<loading, net, console, settled>>

\* Lines 27-39: the flag is set and the request is handed to fetch.
Accept(c, p, a) ==
    /\ loading' = TRUE
    /\ pc' = [pc EXCEPT ![c] = "fetch"]
    /\ prompt' = [prompt EXCEPT ![c] = p]
    /\ agent' = [agent EXCEPT ![c] = a]
    /\ entryBusy' = [entryBusy EXCEPT ![c] = (InFlight # {})]
    /\ fetches' = [fetches EXCEPT ![c] = 1]
    /\ net' = net \cup {[call |-> c, url |-> apiEndpoint, method |-> "POST",
                         prompt |-> Trim(p), agent |-> a]}
    /\ last' = [NoEvent EXCEPT !.kind = "accepted", !.call = c, !.prompt = p,
                               !.busy = (InFlight # {}), !.after = settled,
                               !.fetches = 1, !.flag = TRUE]
    /\ UNCHANGED <<console, settled>>

\* A guard at line 19 that never fires.
NeverBusy == FALSE

\* Line 19: if (this.loading)
IsBusy == loading

\* callAgent(prompt, agent) up to its first await (lines 18-39).
CallAgent(c, p, a) ==
    /\ pc[c] = "idle"
    /\ IF IsBusy THEN RejectBusy(c, p)
       ELSE IF IsBlank(p) THEN RejectBlank(c, p)
       ELSE Accept(c, p, a)
    /\ UNCHANGED <<formatVars, clipVars>>

\* The reset written at the end of the try block instead of in a finally:
\* the flag stays set when the catch block returns.
ResetInTry(outcome) == outcome \notin {"success", "service"}

\* No reset at all.
NoReset(outcome) == TRUE

\* Lines 58-60: what the finally block leaves in this.loading, whichever
\* return statement the invocation left through.
Finally(outcome) == FALSE

\* The invocation returns res from inside the try statement (lines 48, 51,
\* 54-57); the finally block runs before the promise settles.
Return(c, outcome, res) ==
    /\ loading' = Finally(outcome)
    /\ net' = {r \in net : r.call # c}
    /\ settled' = outcome
    /\ last' = [NoEvent EXCEPT !.kind = "returned", !.call = c, !.prompt = prompt[c],
                               !.busy = entryBusy[c], !.after = settled,
                               !.outcome = outcome, !.result = res,
                               !.fetches = fetches[c], !.flag = Finally(outcome)]
    /\ Forget(c)

\* A catch block that hands the caught error's message to the caller.
CatchLeaks(message) == Result("", message)

\* Lines 52-57: the catch block.
CatchResult(message) == Result("", ConnectError)

Catch(c, outcome, message) ==
    /\ console' = message
    /\ Return(c, outcome, CatchResult(message))

\* Lines 47-51 without the "|| 'No response received'" of line 51.
DataResultNoFallback(data) ==
    IF Truthy(data.error)
    THEN Result("", data.error[1])
    ELSE Result(IF data.response # <<>> THEN data.response[1] ELSE "", "")

\* Lines 47-51: the result made from a parsed body that is an object.
DataResult(data) ==
    IF Truthy(data.error)
    THEN Result("", data.error[1])
    ELSE Result(IF Truthy(data.response) THEN data.response[1] ELSE NoResponse, "")

\* fetch resolves with a response of the given status (lines 30-43).
FetchResolve(c, status) ==
    /\ pc[c] = "fetch"
    /\ IF Ok(status)
       THEN /\ pc' = [pc EXCEPT ![c] = "json"]
            /\ last' = NoEvent
            /\ UNCHANGED <<loading, prompt, agent, entryBusy, fetches, net, console, settled>>
       ELSE Catch(c, "http", ServerError(status))
    /\ UNCHANGED <<formatVars, clipVars>>

\* fetch rejects (lines 30, 52-60).
FetchReject(c, message) ==
    /\ pc[c] = "fetch"
    /\ Catch(c, "network", message)
    /\ UNCHANGED <<formatVars, clipVars>>

\* response.json() resolves with the parsed body (lines 45-51).
JsonResolve(c, data) ==
    /\ pc[c] = "json"
    /\ IF data.isNull
       THEN Catch(c, "null", NullError)
       ELSE /\ Return(c, IF Truthy(data.error) THEN "service" ELSE "success",
                      DataResult(data))
            /\ UNCHANGED console
    /\ UNCHANGED <<formatVars, clipVars>>

\* response.json() rejects: the body is not JSON (lines 45, 52-60).
JsonReject(c, message) ==
    /\ pc[c] = "json"
    /\ Catch(c, "malformed", message)
    /\ UNCHANGED <<formatVars, clipVars>>

GateInit ==
    /\ loading = FALSE
    /\ pc = [c \in Calls |-> "idle"]
    /\ prompt = [c \in Calls |-> <<>>]
    /\ agent = [c \in Calls |-> ""]
    /\ entryBusy = [c \in Calls |-> FALSE]
    /\ fetches = [c \in Calls |-> 0]
    /\ net = {}
    /\ console = ""
    /\ settled = "none"
    /\ last = NoEvent

FormatIdle ==
    /\ text = <<>>
    /\ formatted = <<>>
    /\ fdone = FALSE

ClipIdle ==
    /\ cpc = <<>>
    /\ ctext = <<>>
    /\ body = {}
    /\ clipboard = ""
    /\ selected = ""

Init == GateInit /\ FormatIdle /\ ClipIdle

Next ==
    \/ \E c \in Calls, p \in Prompts, a \in Agents : CallAgent(c, p, a)
    \/ \E c \in Calls, status \in Statuses : FetchResolve(c, status)
    \/ \E c \in Calls, message \in NetworkErrors : FetchReject(c, message)
    \/ \E c \in Calls, data \in Bodies : JsonResolve(c, data)
    \/ \E c \in Calls, message \in ParseErrors : JsonReject(c, message)

Spec == Init /\ [][Next]_vars

----------------------------------------------------------------------------
(* formatResponse: strings are sequences of one-character strings, and each *)
(* String.prototype.replace of lines 72-111 is one operator that scans the  *)
(* string from left to right as the regular expression engine does.         *)

\* The regex class \w
WordChars ==
    {"a", "b", "c", "d", "e", "f", "g", "h", "i", "j", "k", "l", "m", "n", "o", "p", "q",
     "r", "s", "t", "u", "v", "w", "x", "y", "z", "A", "B", "C", "D", "E", "F", "G", "H",
     "I", "J", "K", "L", "M", "N", "O", "P", "Q", "R", "S", "T", "U", "V", "W", "X", "Y",
     "Z", "0", "1", "2", "3", "4", "5", "6", "7", "8", "9", "_"}

\* The regex class \d
Digits == {"0", "1", "2", "3", "4", "5", "6", "7", "8", "9"}

NL == "\n"
\* The grave accent (U+0060), which a TLA+ string cannot hold: one element
\* that is no other character, in none of the classes \w, \d, \s.
BackTick == "GRAVE"
Star == "*"

\* The markup the formatter writes
P_OPEN == <<"<", "p", ">">>
P_CLOSE == <<"<", "/", "p", ">">>
BR == <<"<", "b", "r", ">">>
UL_OPEN == <<"<", "u", "l", ">">>
UL_CLOSE == <<"<", "/", "u", "l", ">">>
LI_OPEN == <<"<", "l", "i", ">">>
LI_CLOSE == <<"<", "/", "l", "i", ">">>
H2_OPEN == <<"<", "h", "2", ">">>
H2_CLOSE == <<"<", "/", "h", "2", ">">>
H3_OPEN == <<"<", "h", "3", ">">>
H3_CLOSE == <<"<", "/", "h", "3", ">">>
H4_OPEN == <<"<", "h", "4", ">">>
H4_CLOSE == <<"<", "/", "h", "4", ">">>
STRONG_OPEN == <<"<", "s", "t", "r", "o", "n", "g", ">">>
STRONG_CLOSE == <<"<", "/", "s", "t", "r", "o", "n", "g", ">">>
EM_OPEN == <<"<", "e", "m", ">">>
EM_CLOSE == <<"<", "/", "e", "m", ">">>
CODE_OPEN == <<"<", "c", "o", "d", "e", ">">>
CODE_CLOSE == <<"<", "/", "c", "o", "d", "e", ">">>
PRE_OPEN == <<"<", "p", "r", "e", ">">>
PRE_CLOSE == <<"<", "/", "p", "r", "e", ">">>
\* <code class="language-
CODE_CLASS == <<"<", "c", "o", "d", "e", " ", "c", "l", "a", "s", "s", "=", "\"",
                "l", "a", "n", "g", "u", "a", "g", "e", "-">>
\* ">
CODE_CLASS_END == <<"\"", ">">>
DEFAULT_LANG == <<"t", "e", "x", "t">>
AMP == <<"&", "a", "m", "p", ";">>
LT == <<"&", "l", "t", ";">>
GT == <<"&", "g", "t", ";">>
FENCE == <<BackTick, BackTick, BackTick>>

\* Does pat occur in s at index i
At(s, i, pat) ==
    /\ i >= 1
    /\ i + Len(pat) - 1 <= Len(s)
    /\ SubSeq(s, i, i + Len(pat) - 1) = pat

\* The least index j >= i where pat occurs in s, 0 if there is none
RECURSIVE Find(_, _, _)
Find(s, i, pat) ==
    IF i + Len(pat) - 1 > Len(s) THEN 0
    ELSE IF At(s, i, pat) THEN i
    ELSE Find(s, i + 1, pat)

\* The index of the end of the line that holds index i: the index before the
\* next "\n" at or after i, or Len(s)
RECURSIVE LineEnd(_, _)
LineEnd(s, i) ==
    IF i > Len(s) THEN Len(s)
    ELSE IF s[i] = NL THEN i - 1
    ELSE LineEnd(s, i + 1)

\* ^ under the m flag
LineStart(s, i) == i = 1 \/ (i > 1 /\ s[i - 1] = NL)

\* The index after the longest run of characters of class that starts at i
RECURSIVE SkipClass(_, _, _)
SkipClass(s, i, class) ==
    IF i <= Len(s) /\ s[i] \in class THEN SkipClass(s, i + 1, class) ELSE i

\* s.replace(/ch/g, rep) for a single character ch
RECURSIVE ReplaceChar(_, _, _, _)
ReplaceChar(s, i, ch, rep) ==
    IF i > Len(s) THEN <<>>
    ELSE (IF s[i] = ch THEN rep ELSE <<s[i]>>) \o ReplaceChar(s, i + 1, ch, rep)

\* Lines 72-75 with the replace of line 74 left out.
EscapeHtmlNoLt(s) ==
    ReplaceChar(ReplaceChar(s, 1, "&", AMP), 1, ">", GT)

\* Lines 72-75: escape HTML
EscapeHtml(s) ==
    ReplaceChar(ReplaceChar(ReplaceChar(s, 1, "&", AMP), 1, "<", LT), 1, ">", GT)

\* Line 79: the replacement for a fenced block with capture groups lang, code
CodeBlock(lang, code) ==
    PRE_OPEN \o CODE_CLASS \o (IF lang = <<>> THEN DEFAULT_LANG ELSE lang)
             \o CODE_CLASS_END \o Trim(code) \o CODE_CLOSE \o PRE_CLOSE

\* Line 78: /FENCE(\w+)?\n([\s\S]*?)FENCE/g, FENCE being three grave accents
RECURSIVE CodeBlocks(_, _)
CodeBlocks(s, i) ==
    IF i > Len(s) THEN <<>>
    ELSE LET j == SkipClass(s, i + 3, WordChars)     \* after (\w+)?
             k == Find(s, j + 1, FENCE)              \* the closing fence
         IN  IF At(s, i, FENCE) /\ j <= Len(s) /\ s[j] = NL /\ k # 0
             THEN CodeBlock(SubSeq(s, i + 3, j - 1), SubSeq(s, j + 1, k - 1))
                      \o CodeBlocks(s, k + 3)
             ELSE <<s[i]>> \o CodeBlocks(s, i + 1)

\* Line 83: /G([^G]+)G/g, G being the grave accent
RECURSIVE InlineCode(_, _)
InlineCode(s, i) ==
    IF i > Len(s) THEN <<>>
    ELSE LET k == Find(s, i + 1, <<BackTick>>)
         IN  IF s[i] = BackTick /\ k > i + 1
             THEN CODE_OPEN \o SubSeq(s, i + 1, k - 1) \o CODE_CLOSE \o InlineCode(s, k + 1)
             ELSE <<s[i]>> \o InlineCode(s, i + 1)

\* /^PREFIX(.+)$/gm replaced by open $1 close: lines 86-88 and 91
RECURSIVE LinePrefix(_, _, _, _, _)
LinePrefix(s, i, prefix, open, close) ==
    IF i > Len(s) THEN <<>>
    ELSE LET e == LineEnd(s, i)
         IN  IF LineStart(s, i) /\ At(s, i, prefix) /\ e >= i + Len(prefix)
             THEN open \o SubSeq(s, i + Len(prefix), e) \o close
                      \o LinePrefix(s, e + 1, prefix, open, close)
             ELSE <<s[i]>> \o LinePrefix(s, i + 1, prefix, open, close)

\* Line 92: /^(\d+)\. (.+)$/gm replaced by <li>$2</li>
RECURSIVE NumberedItems(_, _)
NumberedItems(s, i) ==
    IF i > Len(s) THEN <<>>
    ELSE LET j == SkipClass(s, i, Digits)           \* after (\d+)
             e == LineEnd(s, i)
         IN  IF LineStart(s, i) /\ j > i /\ At(s, j, <<".", " ">>) /\ e >= j + 2
             THEN LI_OPEN \o SubSeq(s, j + 2, e) \o LI_CLOSE \o NumberedItems(s, e + 1)
             ELSE <<s[i]>> \o NumberedItems(s, i + 1)

\* The greatest index j in i..e where pat occurs wholly within 1..e, 0 if none
RECURSIVE FindLast(_, _, _, _)
FindLast(s, i, e, pat) ==
    LET j == e - Len(pat) + 1
    IN  IF j < i THEN 0
        ELSE IF At(s, j, pat) THEN j
        ELSE FindLast(s, i, e - 1, pat)

\* One iteration of the group (<li>.*<\/li>\n?) at index i: the index after it,
\* 0 if the group does not match there.  .* is greedy and stays on the line.
ListGroup(s, i) ==
    IF ~At(s, i, LI_OPEN) THEN 0
    ELSE LET c == FindLast(s, i + 4, LineEnd(s, i), LI_CLOSE)
         IN  IF c = 0 THEN 0
             ELSE IF c + 5 <= Len(s) /\ s[c + 5] = NL THEN c + 6 ELSE c + 5

\* (<li>.*<\/li>\n?)+ at index i: the index after the last iteration, 0 if none
RECURSIVE ListRun(_, _)
ListRun(s, i) ==
    LET n == ListGroup(s, i)
    IN  IF n = 0 THEN 0
        ELSE LET m == ListRun(s, n) IN IF m = 0 THEN n ELSE m

\* Line 95: /(<li>.*<\/li>\n?)+/g replaced by <ul>$&</ul>
RECURSIVE WrapLists(_, _)
WrapLists(s, i) ==
    IF i > Len(s) THEN <<>>
    ELSE LET n == ListRun(s, i)
         IN  IF n # 0
             THEN UL_OPEN \o SubSeq(s, i, n - 1) \o UL_CLOSE \o WrapLists(s, n)
             ELSE <<s[i]>> \o WrapLists(s, i + 1)

\* The least k in from..e where mark occurs wholly within the line ending at
\* e, 0 if none: where the lazy (.+?) of lines 98-99 stops
RECURSIVE FindOnLine(_, _, _, _)
FindOnLine(s, from, e, mark) ==
    IF from + Len(mark) - 1 > e THEN 0
    ELSE IF At(s, from, mark) THEN from
    ELSE FindOnLine(s, from + 1, e, mark)

\* /MARK(.+?)MARK/g replaced by open $1 close: lines 98 and 99
RECURSIVE Emphasis(_, _, _, _, _)
Emphasis(s, i, mark, open, close) ==
    IF i > Len(s) THEN <<>>
    ELSE LET n == Len(mark)
             \* (.+?) takes at least one character, none of them "\n"
             k == IF At(s, i, mark) /\ i + n <= Len(s) /\ s[i + n] # NL
                  THEN FindOnLine(s, i + n + 1, LineEnd(s, i + n), mark)
                  ELSE 0
         IN  IF k # 0
             THEN open \o SubSeq(s, i + n, k - 1) \o close
                      \o Emphasis(s, k + n, mark, open, close)
             ELSE <<s[i]>> \o Emphasis(s, i + 1, mark, open, close)

\* s.replace(/PAT/g, rep) for a literal PAT
RECURSIVE ReplaceLiteral(_, _, _, _)
ReplaceLiteral(s, i, pat, rep) ==
    IF i > Len(s) THEN <<>>
    ELSE IF At(s, i, pat) THEN rep \o ReplaceLiteral(s, i + Len(pat), pat, rep)
    ELSE <<s[i]>> \o ReplaceLiteral(s, i + 1, pat, rep)

\* s.replace(/A\s*B/g, rep) for literals A and B: lines 109-111
RECURSIVE ReplaceSpaced(_, _, _, _, _)
ReplaceSpaced(s, i, a, b, rep) ==
    IF i > Len(s) THEN <<>>
    ELSE LET j == SkipClass(s, i + Len(a), WhiteSpace)
         IN  IF At(s, i, a) /\ At(s, j, b)
             THEN rep \o ReplaceSpaced(s, j + Len(b), a, b, rep)
             ELSE <<s[i]>> \o ReplaceSpaced(s, i + 1, a, b, rep)

\* Lines 86-88: headings
Headings(s) ==
    LET h4 == LinePrefix(s, 1, <<"#", "#", "#", " ">>, H4_OPEN, H4_CLOSE)
        h3 == LinePrefix(h4, 1, <<"#", "#", " ">>, H3_OPEN, H3_CLOSE)
    IN  LinePrefix(h3, 1, <<"#", " ">>, H2_OPEN, H2_CLOSE)

\* Lines 91-92: list items
ListItems(s) ==
    NumberedItems(LinePrefix(s, 1, <<"-", " ">>, LI_OPEN, LI_CLOSE), 1)

\* Lines 98-99: bold, then italic
BoldItalic(s) ==
    Emphasis(Emphasis(s, 1, <<Star, Star>>, STRONG_OPEN, STRONG_CLOSE),
             1, <<Star>>, EM_OPEN, EM_CLOSE)

\* Lines 102-103: line breaks
LineBreaks(s) ==
    ReplaceLiteral(ReplaceLiteral(s, 1, <<NL, NL>>, P_CLOSE \o P_OPEN), 1, <<NL>>, BR)

\* Lines 109-111: clean up empty paragraphs
CleanUp(s) ==
    LET a == ReplaceSpaced(s, 1, P_OPEN, P_CLOSE, <<>>)
        b == ReplaceSpaced(a, 1, P_OPEN, UL_OPEN, UL_OPEN)
    IN  ReplaceSpaced(b, 1, UL_CLOSE, P_CLOSE, UL_CLOSE)

\* An absent argument (null, undefined)
NoText == <<"null">>

\* formatResponse(text), lines 68-114
formatResponse(t) ==
    IF t = NoText \/ t = <<>> THEN <<>>
    ELSE LET escaped == EscapeHtml(t)
             blocks == CodeBlocks(escaped, 1)
             inline == InlineCode(blocks, 1)
             heads == Headings(inline)
             items == ListItems(heads)
             lists == WrapLists(items, 1)
             emph == BoldItalic(lists)
             breaks == LineBreaks(emph)
             wrapped == P_OPEN \o breaks \o P_CLOSE
         IN  CleanUp(wrapped)

----------------------------------------------------------------------------
(* The texts formatResponse is applied to *)

MaxPieces == 3         \* pieces per text built from Pieces
MaxCodePieces == 2     \* pieces per body of a fenced block built from CodePieces


\* The strings made of at most n pieces
RECURSIVE PieceStrings(_, _)
PieceStrings(pieces, n) ==
    IF n = 0 THEN {<<>>}
    ELSE LET shorter == PieceStrings(pieces, n - 1)
         IN  shorter \cup {s \o p : s \in shorter, p \in pieces}

\* The characters and markers the stages of formatResponse react to
Pieces ==
    {<<"<">>, <<">">>, <<"&">>, <<"a">>, <<" ">>, <<NL>>, <<BackTick>>, FENCE, <<Star>>,
     <<"-", " ">>, <<"#", " ">>, <<"1", ".", " ">>}

\* A fenced block: a line of FENCE and lang, the lines of code, a line of FENCE
Fenced(lang, code) == FENCE \o lang \o <<NL>> \o code \o <<NL>> \o FENCE

Langs == {<<>>, <<"j", "s">>}
CodePieces == {<<"a">>, <<"<">>, <<" ">>, <<NL>>, <<Star>>, <<BackTick>>, <<"#", " ">>, <<"-", " ">>}
CodeBodies == PieceStrings(CodePieces, MaxCodePieces)
                  \cup { <<"c", "o", "d", "e", "(", ")", ";">>,
                         <<"a", NL, "b">>,
                         <<"a", NL, "#", " ", "b">>,
                         <<"a", " ", "*", " ", "b", " ", "*", " ", "c">> }

\* The examples of the documentation
ScriptText == <<"<", "s", "c", "r", "i", "p", "t", ">">>
TwoItems == <<"-", " ", "a", NL, "-", " ", "b">>
Examples ==
    { NoText,
      ScriptText,
      TwoItems,
      <<"*", "*", "b", "o", "l", "d", "*", "*", " ", "a", "n", "d", " ", "*", "i", "t",
        "a", "l", "i", "c", "*">>,
      <<"1", ".", " ", "a", NL, "2", ".", " ", "b", NL, NL, "c">>,
      <<"#", "#", "#", " ", "a", NL, "#", "#", " ", "b", NL, "#", " ", "c">>,
      <<"a", NL, NL, "-", " ", "b", NL, NL, "c", " ", BackTick, "<", BackTick>> }

Texts ==
    PieceStrings(Pieces, MaxPieces)
        \cup Examples
        \cup {Fenced(lang, code) : lang \in Langs, code \in CodeBodies}

GateIdle == GateInit

FormatInit ==
    /\ text \in Texts
    /\ formatted = <<>>
    /\ fdone = FALSE

\* formatResponse(text) is called and returns
FormatResponse ==
    /\ ~fdone
    /\ formatted' = formatResponse(text)
    /\ fdone' = TRUE
    /\ UNCHANGED <<text, gateVars, clipVars>>

InitFormat == GateIdle /\ FormatInit /\ ClipIdle

NextFormat == FormatResponse

SpecFormat == InitFormat /\ [][NextFormat]_vars

----------------------------------------------------------------------------
(* copyToClipboard *)

MaxCopies == 2         \* invocation slots of copyToClipboard that may overlap

Copies == 1..MaxCopies
CopyTexts == {"", "x = 1", "y = 2"}

\* What the browser does with navigator.clipboard.writeText at the call:
\* "pending" (a promise is returned) or "absent" (navigator.clipboard is
\* undefined, so the call throws inside the try block).
ClipboardApis == {"pending", "absent"}

\* What document.execCommand('copy') does: returns true having copied the
\* selection, returns false having copied nothing, or throws.
ExecOutcomes == {"true", "false", "throws"}

\* The textarea created by invocation k for text t
Textarea(k, t) == [by |-> k, value |-> t]

\* Lines 126-132: the catch block, run to its end or to the throw.
Fallback(k, t, exec) ==
    /\ selected' = t                                           \* line 129
    /\ clipboard' = IF exec = "true" THEN t ELSE clipboard     \* line 130
    /\ IF exec = "throws"
       THEN \* line 130 throws: lines 131-132 are not reached
            /\ body' = body \cup {Textarea(k, t)}              \* line 128
            /\ cpc' = [cpc EXCEPT ![k] = "rejected"]
       ELSE /\ body' = (body \cup {Textarea(k, t)}) \ {Textarea(k, t)}  \* lines 128, 131
            /\ cpc' = [cpc EXCEPT ![k] = "true"]

\* copyToClipboard(text) up to its await (lines 120-122), for slot k, which
\* no invocation is using.
CopyToClipboard(k, t, api, exec) ==
    /\ cpc[k] # "writing"
    /\ ctext' = [ctext EXCEPT ![k] = t]
    /\ IF api = "absent"
       THEN Fallback(k, t, exec)
       ELSE /\ cpc' = [cpc EXCEPT ![k] = "writing"]
            /\ UNCHANGED <<body, clipboard, selected>>
    /\ UNCHANGED <<gateVars, formatVars>>

\* writeText resolves: line 123 returns true.
WriteResolve(k) ==
    /\ cpc[k] = "writing"
    /\ clipboard' = ctext[k]
    /\ cpc' = [cpc EXCEPT ![k] = "true"]
    /\ UNCHANGED <<ctext, body, selected, gateVars, formatVars>>

\* writeText rejects: the catch block runs.
WriteReject(k, exec) ==
    /\ cpc[k] = "writing"
    /\ Fallback(k, ctext[k], exec)
    /\ UNCHANGED <<ctext, gateVars, formatVars>>

ClipInit ==
    /\ cpc = [k \in Copies |-> "idle"]
    /\ ctext = [k \in Copies |-> ""]
    /\ body = {}
    /\ clipboard = ""
    /\ selected = ""

InitClipboard == GateIdle /\ FormatIdle /\ ClipInit

NextClipboard ==
    \/ \E k \in Copies, t \in CopyTexts, api \in ClipboardApis, exec \in ExecOutcomes :
           CopyToClipboard(k, t, api, exec)
    \/ \E k \in Copies : WriteResolve(k)
    \/ \E k \in Copies, exec \in ExecOutcomes : WriteReject(k, exec)

SpecClipboard == InitClipboard /\ [][NextClipboard]_vars

----------------------------------------------------------------------------
(* Properties of copyToClipboard, checked under SpecClipboard *)

\* The invocation of slot k has settled: returned true or rejected.
CopySettled(k) == cpc[k] \in {"true", "rejected"}

\* C10 as stated: when copyToClipboard settles, no textarea it appended is
\* still in the document, whether the fallback's steps succeeded or threw.
C10_AsStated ==
    \A k \in Copies : CopySettled(k) => ~(\E e \in body : e.by = k)

----------------------------------------------------------------------------
(* Properties of callAgent, checked under Spec *)

Rejections == {"busy", "blank"}
TransportFailures == {"http", "network", "malformed"}

\* p is a string with a character that is not white space.
HasText(p) == p # NoPrompt /\ \E i \in 1..Len(p) : p[i] \notin WhiteSpace

\* p is the empty string or a string of white space only.
EmptyOrSpaces(p) == p # NoPrompt /\ \A i \in 1..Len(p) : p[i] \in WhiteSpace

\* last describes an invocation that has just returned.
Returned == last.kind = "returned"

\* The invocation last describes started while no other was suspended, with a
\* prompt that is not blank.
StartedIdle == last.kind # "none" /\ ~last.busy /\ HasText(last.prompt)

\* Exactly one of response and error is non-empty.
ExactlyOne(res) == (res.response # "") # (res.error # "")

\* C1: an invocation that starts while an earlier accepted one is still
\* suspended returns the busy error and makes no fetch, so at most one
\* request is outstanding at any time.
C1_SingleFlight ==
    /\ Cardinality(net) <= 1
    /\ Cardinality(InFlight) <= 1
    /\ (last.kind # "none" /\ last.busy) =>
           /\ Returned
           /\ last.result = Result("", BusyError)
           /\ last.fetches = 0

C1_Witness ==
    /\ Returned /\ last.busy /\ HasText(last.prompt)
    /\ last.result = Result("", BusyError)
    /\ Cardinality(net) = 1

\* C2: once an accepted invocation has settled, by whatever outcome, the flag
\* is false again, and the next invocation with a non-blank prompt is accepted
\* and makes a request.
C2_IdleAgain ==
    /\ (InFlight = {} => loading = FALSE)
    /\ StartedIdle => (last.outcome \notin Rejections /\ last.fetches = 1)

C2_Witness ==
    /\ last.kind = "accepted" /\ ~last.busy
    /\ last.after = "malformed"
    /\ \E r \in net : r.call = last.call /\ r.prompt = Trim(last.prompt)

\* C3 as stated: every invocation with a blank prompt returns the empty-prompt
\* error and makes no fetch.
C3_AsStated ==
    (last.kind # "none" /\ EmptyOrSpaces(last.prompt)) =>
        /\ Returned
        /\ last.result = Result("", EmptyPromptError)
        /\ last.fetches = 0

\* C3 amended: an invocation with a blank prompt makes no fetch; it returns
\* the empty-prompt error when no other invocation is suspended and the busy
\* error when one is.
C3_BlankPrompt ==
    (last.kind # "none" /\ EmptyOrSpaces(last.prompt)) =>
        /\ Returned
        /\ last.fetches = 0
        /\ last.result = Result("", IF last.busy THEN BusyError ELSE EmptyPromptError)
        /\ \A r \in net : r.call # last.call

C3_Witness ==
    /\ Returned /\ ~last.busy
    /\ last.prompt # <<>> /\ EmptyOrSpaces(last.prompt)
    /\ last.result = Result("", EmptyPromptError)

\* C4: an invocation with a non-blank prompt, started while none is suspended,
\* makes exactly one fetch and returns a result with exactly one of response
\* and error non-empty, whatever the service replies.
C4_ExactlyOne ==
    (Returned /\ StartedIdle) => (last.fetches = 1 /\ ExactlyOne(last.result))

C4_Witness ==
    /\ Returned /\ StartedIdle
    /\ last.outcome = "success"
    /\ last.result = Result(NoResponse, "")

\* C5: a transport failure of an accepted invocation (a status outside 2xx, a
\* rejected fetch, a body that is not JSON) returns exactly the generic
\* message, which is not the text of the error caught.
C5_GenericError ==
    (Returned /\ last.outcome \in TransportFailures) =>
        /\ last.result = Result("", ConnectError)
        /\ last.result.error # console

C5_Witness ==
    /\ Returned /\ last.outcome = "http"
    /\ console = ServerError(500)
    /\ last.result = Result("", ConnectError)

\* C6 as stated: whichever branch an invocation returns through, the flag is
\* false when it returns.
C6_AsStated == Returned => last.flag = FALSE

\* C6 amended: the flag is false when an invocation returns through any branch
\* but the busy rejection; the busy rejection leaves the flag set, as the
\* invocation that set it is still suspended.
C6_Released == Returned => (last.flag = (last.outcome = "busy"))

C6_Witness ==
    /\ Returned /\ last.outcome = "network" /\ last.flag = FALSE /\ loading = FALSE

----------------------------------------------------------------------------
(* Properties of formatResponse, checked under SpecFormat *)

\* Does pat occur in s
Contains(s, pat) == Find(s, 1, pat) # 0

\* The number of occurrences of pat in s from index i on
RECURSIVE Count(_, _, _)
Count(s, i, pat) ==
    IF i + Len(pat) - 1 > Len(s) THEN 0
    ELSE (IF At(s, i, pat) THEN 1 ELSE 0) + Count(s, i + 1, pat)

\* The tags without attributes that formatResponse writes
OwnTags ==
    {P_OPEN, P_CLOSE, BR, UL_OPEN, UL_CLOSE, LI_OPEN, LI_CLOSE, H2_OPEN, H2_CLOSE,
     H3_OPEN, H3_CLOSE, H4_OPEN, H4_CLOSE, STRONG_OPEN, STRONG_CLOSE, EM_OPEN, EM_CLOSE,
     CODE_OPEN, CODE_CLOSE, PRE_OPEN, PRE_CLOSE}

\* From index i on, every "<" of s opens and every ">" closes a tag the
\* formatter writes, and every "&" starts one of the three entities.
RECURSIVE OnlyOwnMarkup(_, _)
OnlyOwnMarkup(s, i) ==
    IF i > Len(s) THEN TRUE
    ELSE IF s[i] = "<"
    THEN \/ \E t \in OwnTags : At(s, i, t) /\ OnlyOwnMarkup(s, i + Len(t))
         \/ LET j == SkipClass(s, i + Len(CODE_CLASS), WordChars)
            IN  /\ At(s, i, CODE_CLASS)
                /\ j > i + Len(CODE_CLASS)
                /\ At(s, j, CODE_CLASS_END)
                /\ OnlyOwnMarkup(s, j + Len(CODE_CLASS_END))
    ELSE IF s[i] = ">" THEN FALSE
    ELSE IF s[i] = "&"
    THEN \E e \in {AMP, LT, GT} : At(s, i, e) /\ OnlyOwnMarkup(s, i + Len(e))
    ELSE OnlyOwnMarkup(s, i + 1)

\* C7 as stated: formatResponse("- a\n- b") is exactly
\* "<ul><li>a</li><li>b</li></ul>".
C7_AsStated ==
    (fdone /\ text = TwoItems) =>
        formatted = UL_OPEN \o LI_OPEN \o <<"a">> \o LI_CLOSE
                            \o LI_OPEN \o <<"b">> \o LI_CLOSE \o UL_CLOSE

\* What the code returns for "- a\n- b": the newline between the items is
\* inside the <ul> and becomes <br>.
C7_Actual ==
    (fdone /\ text = TwoItems) =>
        formatted = UL_OPEN \o LI_OPEN \o <<"a">> \o LI_CLOSE \o BR
                            \o LI_OPEN \o <<"b">> \o LI_CLOSE \o UL_CLOSE

\* C8 as stated: for a text that is one fenced block, the output holds
\* <pre><code class="language-X">, the escaped and trimmed body, </code></pre>,
\* the body unchanged by the later stages.
C8_AsStated ==
    fdone =>
        \A lang \in Langs, code \in CodeBodies :
            (text = Fenced(lang, code) /\ ~Contains(code, FENCE)) =>
                Contains(formatted, CodeBlock(lang, EscapeHtml(code)))

\* C9: every "<" and ">" of the output belongs to a tag the formatter wrote,
\* every "<", ">" and "&" of the input is in the output as &lt;, &gt;, &amp;
\* and formatResponse("<script>") holds no literal <script>.
C9_NoRawTags ==
    fdone =>
        /\ OnlyOwnMarkup(formatted, 1)
        /\ text # NoText =>
               /\ Count(formatted, 1, LT) = Count(text, 1, <<"<">>)
               /\ Count(formatted, 1, GT) = Count(text, 1, <<">">>)
               /\ Count(formatted, 1, AMP) = Count(text, 1, <<"&">>)
        /\ text = ScriptText => ~Contains(formatted, ScriptText)

C9_Witness ==
    /\ fdone
    /\ Contains(text, <<"<">>)
    /\ Contains(formatted, EM_OPEN \o LT \o EM_CLOSE)

====
